---- MODULE Spec2Model ----
(***************************************************************************)
(* A model of one instantiation of the stream_module! macro of             *)
(* src/crypto/stream_macros.rs: the Key and Nonce types, gen_key,          *)
(* gen_nonce, stream, stream_xor and stream_xor_inplace, and the calling   *)
(* code that owns the keys and buffers (modelled after the tests of the    *)
(* same file).                                                             *)
(*                                                                         *)
(* Spec      one calling thread (Holder) running every operation;          *)
(* SpecConc  several threads running gen_key / gen_nonce concurrently,     *)
(*           one byte of the random source at a time;                      *)
(* SpecFail  the cipher calls against an engine that may signal failure.   *)
(***************************************************************************)
EXTENDS Integers, Sequences, FiniteSets, TLC

\* ------------------------------------------------------------- parameters

\* The macro's $keybytes and $noncebytes, instantiated small.
KEYBYTES == 2
NONCEBYTES == 1

\* Longest message / keystream requested.
MaxLen == 2
\* Threads of SpecConc.
NumThreads == 2

\* The byte values random data and messages are drawn from (u8 values).
ByteSample == {0, 165}

Threads == 1..NumThreads
Holder == 1

\* ------------------------------------------------------------------ bytes

RECURSIVE XorBits(_, _, _)
XorBits(a, b, w) ==
    IF w = 0 THEN 0
    ELSE (((a % 2) + (b % 2)) % 2) + (2 * XorBits(a \div 2, b \div 2, w - 1))

\* `*e ^= *v` on u8.
ByteXor(a, b) == XorBits(a, b, 8)

\* repeat(0u8).take(len).collect() and [0; N].
Zeros(len) == [i \in 1..len |-> 0]

Min(a, b) == IF a < b THEN a ELSE b

\* for (e, v) in c.iter_mut().zip(s.iter()) { *e ^= *v }
XorSeq(c, s) ==
    [i \in 1..Len(c) |-> IF i <= Len(s) THEN ByteXor(c[i], s[i]) ELSE c[i]]

SeqsOfLen(len) == [1..len -> ByteSample]

\* ------------------------------------------------------------------ state

VARIABLES
    rng,      \* the byte the random source delivers next
    pc,       \* pc[t]: where thread t is
    idx,      \* idx[t]: bytes randombytes_into has written for t's call
    stack,    \* stack[b]: the local array `key` / `nonce` of a generator call
    writer,   \* writer[b][i]: the thread that wrote byte i of stack[b] (0: none)
    k,        \* k[t]: thread t's Key: [st, mem]
    n,        \* n[t]: thread t's Nonce (<<>>: none yet)
    exitBy,   \* the exit path that last destroyed the Holder's Key
    conv,     \* the last from_slice(&m) call: [ty, res]
    buf,      \* the Holder's byte buffers, by name
    have,     \* the names of the buffers that exist
    sArgs,    \* the arguments of the stream call that produced buf["s"]
    again,    \* the last kept stream call repeated the arguments of sArgs
    ecall,    \* the engine call in progress (req: the length the caller asked for)
    last,     \* the last engine call's status; the buffer returned if it failed
    faulty    \* whether the engine may signal failure

vars == <<rng, pc, idx, stack, writer, k, n, exitBy, conv, buf, have, sArgs,
          again, ecall, last, faulty>>

genVars == <<rng, idx, stack, writer>>
cipherVars == <<buf, have, sArgs, again, ecall, last>>

BufNames == {"m", "c", "m2", "b", "s", "v"}
NoKey == [st |-> "none", mem |-> <<>>]
NoConv == [ty |-> "-", res |-> "-"]
NoCall == [fn |-> "-", out |-> "-", in |-> "-", len |-> 0, alloc |-> 0,
           n |-> <<>>, k |-> <<>>, req |-> 0]
NoArgs == [len |-> 0, n |-> <<>>, k |-> <<>>]
NoLast == [status |-> 0, ret |-> "-"]

Idle(t) == pc[t] = "idle"
KeyLive(t) == k[t].st = "live"

\* ------------------------------------------------- random source, gen_key

\* As LocalBuf, had the array been one static shared by every call.
SharedBuf(t) == 1

\* `let mut key = [0; KEYBYTES]` / `let mut nonce = [0; NONCEBYTES]`: the
\* array is a local of the call, one per calling thread.
LocalBuf(t) == t

\* gen_key, up to the call of randombytes_into.
GenKeyBegin(t) ==
    /\ Idle(t)
    /\ k[t].st \in {"none", "released"}
    /\ pc' = [pc EXCEPT ![t] = "gen_key"]
    /\ stack' = [stack EXCEPT ![LocalBuf(t)] = Zeros(KEYBYTES)]
    /\ writer' = [writer EXCEPT ![LocalBuf(t)] = Zeros(KEYBYTES)]
    /\ idx' = [idx EXCEPT ![t] = 0]
    /\ conv' = NoConv
    /\ exitBy' = "-"
    /\ UNCHANGED <<rng, k, n, faulty>>
    /\ UNCHANGED cipherVars

\* gen_nonce, up to the call of randombytes_into. The buffers computed under
\* the previous nonce are let go when the new one is bound (GenNonceEnd).
GenNonceBegin(t) ==
    /\ Idle(t)
    /\ pc' = [pc EXCEPT ![t] = "gen_nonce"]
    /\ stack' = [stack EXCEPT ![LocalBuf(t)] = Zeros(NONCEBYTES)]
    /\ writer' = [writer EXCEPT ![LocalBuf(t)] = Zeros(NONCEBYTES)]
    /\ idx' = [idx EXCEPT ![t] = 0]
    /\ conv' = NoConv
    /\ UNCHANGED <<rng, k, n, exitBy, faulty>>
    /\ UNCHANGED cipherVars

\* randombytes_into(&mut buf): one byte of the shared source into the buffer
\* it was handed, until the buffer is full.
RandomFill(t) ==
    /\ pc[t] \in {"gen_key", "gen_nonce"}
    /\ idx[t] < Len(stack[LocalBuf(t)])
    /\ stack' = [stack EXCEPT ![LocalBuf(t)][idx[t] + 1] = rng]
    /\ writer' = [writer EXCEPT ![LocalBuf(t)][idx[t] + 1] = t]
    /\ idx' = [idx EXCEPT ![t] = idx[t] + 1]
    /\ \E nxt \in ByteSample : rng' = nxt
    /\ UNCHANGED <<pc, k, n, exitBy, conv, faulty>>
    /\ UNCHANGED cipherVars

\* The buffers derived from (key, nonce, message): gone when one of them goes.
Derived == {"c", "m2", "b"}
Drop(names) == [x \in BufNames |-> IF x \in names THEN <<>> ELSE buf[x]]

\* `Key(key)`: the array is copied into the Key that is returned.
GenKeyEnd(t) ==
    /\ pc[t] = "gen_key"
    /\ idx[t] >= Len(stack[LocalBuf(t)])
    /\ k' = [k EXCEPT ![t] = [st |-> "live", mem |-> stack[LocalBuf(t)]]]
    /\ pc' = [pc EXCEPT ![t] = "idle"]
    /\ stack' = [stack EXCEPT ![LocalBuf(t)] = <<>>]
    /\ writer' = [writer EXCEPT ![LocalBuf(t)] = <<>>]
    /\ idx' = [idx EXCEPT ![t] = 0]
    /\ UNCHANGED <<rng, n, exitBy, conv, faulty>>
    /\ UNCHANGED cipherVars

\* `Nonce(nonce)`.
GenNonceEnd(t) ==
    /\ pc[t] = "gen_nonce"
    /\ idx[t] >= Len(stack[LocalBuf(t)])
    /\ n' = [n EXCEPT ![t] = stack[LocalBuf(t)]]
    /\ pc' = [pc EXCEPT ![t] = "idle"]
    /\ stack' = [stack EXCEPT ![LocalBuf(t)] = <<>>]
    /\ writer' = [writer EXCEPT ![LocalBuf(t)] = <<>>]
    /\ idx' = [idx EXCEPT ![t] = 0]
    /\ IF t = Holder
       THEN /\ buf' = Drop(Derived)
            /\ have' = have \ Derived
       ELSE UNCHANGED <<buf, have>>
    /\ UNCHANGED <<rng, k, exitBy, conv, faulty, sArgs, again, ecall, last>>

\* ------------------------------------------------ construction from bytes

\* As KeyLen, had Key been declared with the nonce's length.
KeyLenOfNonce == NONCEBYTES

\* newtype_impl!(Key, KEYBYTES) and newtype_impl!(Nonce, NONCEBYTES)
KeyLen == KEYBYTES
NonceLen == NONCEBYTES

\* from_slice: the length check, then a copy of the bytes.
from_slice(bs, len) ==
    IF Len(bs) # len
    THEN [res |-> "InvalidLength", bytes |-> <<>>]
    ELSE [res |-> "ok", bytes |-> [i \in 1..len |-> bs[i]]]

\* Key::from_slice(&m): a Key from the bytes of the message buffer, into a
\* binding that holds no Key.
KeyFromSlice(t) ==
    /\ Idle(t)
    /\ k[t].st \in {"none", "released"}
    /\ "m" \in have
    /\ LET r == from_slice(buf["m"], KeyLen) IN
       /\ conv' = [ty |-> "Key", res |-> r.res]
       /\ k' = IF r.res = "ok"
               THEN [k EXCEPT ![t] = [st |-> "live", mem |-> r.bytes]]
               ELSE k
    /\ exitBy' = "-"
    /\ UNCHANGED <<pc, n, faulty>>
    /\ UNCHANGED genVars
    /\ UNCHANGED cipherVars

\* Nonce::from_slice(&m). On failure the previous nonce stays bound.
NonceFromSlice(t) ==
    /\ Idle(t)
    /\ "m" \in have
    /\ LET r == from_slice(buf["m"], NonceLen) IN
       /\ conv' = [ty |-> "Nonce", res |-> r.res]
       /\ IF r.res = "ok"
          THEN /\ n' = [n EXCEPT ![t] = r.bytes]
               /\ buf' = Drop(Derived)
               /\ have' = have \ Derived
          ELSE UNCHANGED <<n, buf, have>>
    /\ UNCHANGED <<pc, k, exitBy, faulty, sArgs, again, ecall, last>>
    /\ UNCHANGED genVars

\* ------------------------------------------------------- the Key's end

\* As KeyHasDrop, had newtype_drop!(Key) been left out.
KeyWithoutDrop == FALSE

\* newtype_drop!(Key): Key has a destructor; Nonce (#[derive(Copy)]) has none.
KeyHasDrop == TRUE

\* Drop for Key: volatile_set_memory(v.as_mut_ptr(), 0, v.len()).
drop_zero(mem) == [i \in 1..Len(mem) |-> 0]

DropGlue(mem) == IF KeyHasDrop THEN drop_zero(mem) ELSE mem

ExitPaths == {"scope_exit", "early_return", "unwind"}

\* The scope that owns the Key is left, by one of the exit paths; each runs
\* the destructor of the Key. The thread is not inside a call that borrows
\* the Key: the calls are synchronous and the engine does not unwind.
Exit(t) ==
    /\ pc[t] \in {"idle", "panicked"}
    /\ KeyLive(t)
    /\ \E path \in ExitPaths :
          /\ pc[t] = "panicked" => path = "unwind"
          /\ exitBy' = path
    /\ k' = [k EXCEPT ![t] = [st |-> "dropped", mem |-> DropGlue(k[t].mem)]]
    /\ pc' = [pc EXCEPT ![t] = "idle"]
    /\ buf' = Drop(Derived)
    /\ have' = have \ Derived
    /\ conv' = NoConv
    /\ UNCHANGED <<n, faulty, sArgs, again, ecall, last>>
    /\ UNCHANGED genVars

\* The memory of the dropped Key is given back.
Release(t) ==
    /\ k[t].st = "dropped"
    /\ k' = [k EXCEPT ![t].st = "released"]
    /\ UNCHANGED <<pc, n, exitBy, conv, faulty>>
    /\ UNCHANGED genVars
    /\ UNCHANGED cipherVars

\* ------------------------------------------------------ the cipher engine

RECURSIVE Mix(_, _)
Mix(bytes, h) ==
    IF bytes = <<>> THEN h
    ELSE Mix(Tail(bytes), (h * 31 + Head(bytes) + 1) % 256)

\* Byte i (from 0) of the keystream of (key, nonce): a fixed function of the
\* three, standing for the cipher.
KeystreamByte(key, nonce, i) ==
    (Mix(key, 7) * 3 + Mix(nonce, 11) * 5 + i * 101 + 17) % 256

\* The engine's loop over the bytes from..upto of the buffers it was handed:
\* out[j] = in[j] XOR keystream[j] (xor entry point), out[j] = keystream[j]
\* (keystream entry point). It reads and writes the caller's memory, so an
\* input that is also the output is read before it is overwritten.
RECURSIVE EngineLoop(_, _, _, _)
EngineLoop(mem, call, from, upto) ==
    IF from > upto THEN mem
    ELSE LET ks == KeystreamByte(call.k, call.n, from - 1)
             byte == IF call.fn = "xor"
                     THEN ByteXor(mem[call.in][from], ks)
                     ELSE ks
         IN EngineLoop([mem EXCEPT ![call.out][from] = byte],
                       call, from + 1, upto)

\* The bytes the engine can touch without leaving a buffer.
InBounds(mem, call) ==
    IF call.fn = "xor"
    THEN Min(call.len, Min(Len(mem[call.out]), Len(mem[call.in])))
    ELSE Min(call.len, Len(mem[call.out]))

\* generate_keystream(out, len, nonce, key) and
\* xor_with_keystream(out, in, len, nonce, key), stopped after `done` bytes.
generate_keystream(mem, call, done) == EngineLoop(mem, call, 1, done)
xor_with_keystream(mem, call, done) == EngineLoop(mem, call, 1, done)

Engine(mem, call, done) ==
    IF call.fn = "xor"
    THEN xor_with_keystream(mem, call, done)
    ELSE generate_keystream(mem, call, done)

\* What the engine may report and how far it got: all of it and 0, or, for
\* an engine that can fail, a non-zero status after any prefix.
EngineRuns(mem, call) ==
    {[status |-> 0, done |-> InBounds(mem, call)]}
    \cup (IF faulty
          THEN {[status |-> -1, done |-> d] : d \in 0..InBounds(mem, call)}
          ELSE {})

\* ------------------------------------------------------------ the wrappers

\* As stream, had it drawn a nonce of its own from the random source.
stream_random_nonce(t, len) ==
    [fn |-> "stream", out |-> "v", in |-> "-", alloc |-> len, len |-> len,
     n |-> [i \in 1..NONCEBYTES |-> rng], k |-> k[t].mem]

\* As stream, had it asked the engine for one byte more than it allocated.
stream_one_more(t, len) ==
    [fn |-> "stream", out |-> "v", in |-> "-", alloc |-> len, len |-> len + 1,
     n |-> n[t], k |-> k[t].mem]

\* stream: c = len zero bytes; $stream_name(c.as_mut_ptr(), c.len(), n, k).
stream(t, len) ==
    [fn |-> "stream", out |-> "v", in |-> "-", alloc |-> len, len |-> len,
     n |-> n[t], k |-> k[t].mem]

\* As stream_xor, had it called the keystream entry point ($stream_name).
stream_xor_keystream(t, mem, src, dst) ==
    [fn |-> "stream", out |-> dst, in |-> src, alloc |-> Len(mem[src]),
     len |-> Len(mem[src]), n |-> n[t], k |-> k[t].mem]

\* As stream_xor, had it passed c.as_ptr() as the engine's input.
stream_xor_reads_output(t, mem, src, dst) ==
    [fn |-> "xor", out |-> dst, in |-> dst, alloc |-> Len(mem[src]),
     len |-> Len(mem[src]), n |-> n[t], k |-> k[t].mem]

\* As stream_xor, had it allocated m.len() + 1 bytes.
stream_xor_longer(t, mem, src, dst) ==
    [fn |-> "xor", out |-> dst, in |-> src, alloc |-> Len(mem[src]) + 1,
     len |-> Len(mem[src]), n |-> n[t], k |-> k[t].mem]

\* stream_xor: c = m.len() zero bytes;
\* $xor_name(c.as_mut_ptr(), m.as_ptr(), m.len(), n, k).
stream_xor(t, mem, src, dst) ==
    [fn |-> "xor", out |-> dst, in |-> src, alloc |-> Len(mem[src]),
     len |-> Len(mem[src]), n |-> n[t], k |-> k[t].mem]

\* As stream_xor_inplace, had it passed m.len() - 1.
stream_xor_inplace_short(t, mem, b) ==
    [fn |-> "xor", out |-> b, in |-> b, alloc |-> Len(mem[b]),
     len |-> Len(mem[b]) - 1, n |-> n[t], k |-> k[t].mem]

\* stream_xor_inplace: $xor_name(m.as_mut_ptr(), m.as_ptr(), m.len(), n, k).
stream_xor_inplace(t, mem, b) ==
    [fn |-> "xor", out |-> b, in |-> b, alloc |-> Len(mem[b]),
     len |-> Len(mem[b]), n |-> n[t], k |-> k[t].mem]

\* As OnStatus, had the wrappers checked the status.
OnStatusChecked(status) == IF status = 0 THEN "return" ELSE "panic"

\* The engine's status is a discarded expression statement: the wrapper goes
\* on to return whatever it reports.
OnStatus(status) == "return"

PcAfter(status) == IF OnStatus(status) = "return" THEN "idle" ELSE "panicked"

\* The status of the engine call and, after a failure, the buffer the
\* wrapper returned all the same.
Last(status, ret) ==
    [status |-> status, ret |-> IF status = 0 THEN "-" ELSE ret]

CanCall(t) == Idle(t) /\ KeyLive(t) /\ n[t] # <<>>

\* let m = randombytes(i): a new message; what was computed from the old one
\* is let go.
RandomMsg(t) ==
    /\ Idle(t)
    /\ \E len \in 0..MaxLen : \E bytes \in SeqsOfLen(len) :
          buf' = [Drop(Derived) EXCEPT !["m"] = bytes]
    /\ have' = (have \ Derived) \cup {"m"}
    /\ conv' = NoConv
    /\ last' = NoLast
    /\ UNCHANGED <<pc, k, n, exitBy, faulty, sArgs, again, ecall>>
    /\ UNCHANGED genVars

\* stream(len, &n, &k), up to the engine call.
StreamCall(t) ==
    /\ CanCall(t)
    /\ \E len \in 0..MaxLen :
          LET call == stream(t, len) IN
          /\ ecall' = call @@ [req |-> len]
          /\ buf' = [buf EXCEPT !["v"] = Zeros(call.alloc)]
    /\ have' = have \cup {"v"}
    /\ pc' = [pc EXCEPT ![t] = "stream"]
    /\ conv' = NoConv
    /\ last' = NoLast
    /\ UNCHANGED <<k, n, exitBy, faulty, sArgs, again>>
    /\ UNCHANGED genVars

\* The engine runs and stream returns c. The caller keeps the result (as s)
\* or lets it go.
StreamReturn(t) ==
    /\ pc[t] = "stream"
    /\ \E run \in EngineRuns(buf, ecall) : \E keep \in BOOLEAN :
          LET mem == Engine(buf, ecall, run.done)
              args == [len |-> ecall.req, n |-> n[t], k |-> k[t].mem]
          IN
          /\ pc' = [pc EXCEPT ![t] = PcAfter(run.status)]
          /\ IF keep /\ PcAfter(run.status) = "idle"
             THEN /\ buf' = [mem EXCEPT !["s"] = mem["v"], !["v"] = <<>>]
                  /\ have' = (have \ {"v"}) \cup {"s"}
                  /\ sArgs' = args
                  /\ again' = ("s" \in have /\ sArgs = args)
                  /\ last' = Last(run.status, "s")
             ELSE /\ buf' = [buf EXCEPT !["v"] = <<>>]
                  /\ have' = have \ {"v"}
                  /\ last' = Last(run.status, "-")
                  /\ UNCHANGED <<sArgs, again>>
    /\ ecall' = NoCall
    /\ UNCHANGED <<k, n, exitBy, conv, faulty>>
    /\ UNCHANGED genVars

\* stream_xor(&m, &n, &k) (c = ...) or stream_xor(&c, &n, &k) (m2 = ...),
\* up to the engine call.
StreamXorCall(t) ==
    /\ CanCall(t)
    /\ \E src \in {"m", "c"} :
          LET dst == IF src = "m" THEN "c" ELSE "m2"
              call == stream_xor(t, buf, src, dst)
              gone == IF src = "m" THEN {"m2"} ELSE {}
          IN
          /\ src \in have
          /\ ecall' = call @@ [req |-> Len(buf[src])]
          /\ buf' = [Drop(gone) EXCEPT ![dst] = Zeros(call.alloc)]
          /\ have' = (have \ gone) \cup {dst}
    /\ pc' = [pc EXCEPT ![t] = "stream_xor"]
    /\ conv' = NoConv
    /\ last' = NoLast
    /\ UNCHANGED <<k, n, exitBy, faulty, sArgs, again>>
    /\ UNCHANGED genVars

\* let mut b = m.clone(); stream_xor_inplace(&mut b, &n, &k), up to the
\* engine call.
StreamXorInplaceCall(t) ==
    /\ CanCall(t)
    /\ "m" \in have
    /\ LET copied == [buf EXCEPT !["b"] = buf["m"]] IN
       /\ buf' = copied
       /\ ecall' = stream_xor_inplace(t, copied, "b") @@ [req |-> Len(buf["m"])]
    /\ have' = have \cup {"b"}
    /\ pc' = [pc EXCEPT ![t] = "stream_xor_inplace"]
    /\ conv' = NoConv
    /\ last' = NoLast
    /\ UNCHANGED <<k, n, exitBy, faulty, sArgs, again>>
    /\ UNCHANGED genVars

\* The engine runs and stream_xor / stream_xor_inplace returns.
XorReturn(t) ==
    /\ pc[t] \in {"stream_xor", "stream_xor_inplace"}
    /\ \E run \in EngineRuns(buf, ecall) :
          /\ buf' = Engine(buf, ecall, run.done)
          /\ pc' = [pc EXCEPT ![t] = PcAfter(run.status)]
          /\ last' = Last(run.status, ecall.out)
    /\ ecall' = NoCall
    /\ UNCHANGED <<k, n, exitBy, conv, faulty, have, sArgs, again>>
    /\ UNCHANGED genVars

\* ------------------------------------------------------- specifications

InitCommon ==
    /\ pc = [t \in Threads |-> "idle"]
    /\ idx = [t \in Threads |-> 0]
    /\ stack = [t \in Threads |-> <<>>]
    /\ writer = [t \in Threads |-> <<>>]
    /\ exitBy = "-"
    /\ conv = NoConv
    /\ buf = [x \in BufNames |-> <<>>]
    /\ have = {}
    /\ sArgs = NoArgs
    /\ again = FALSE
    /\ ecall = NoCall
    /\ last = NoLast

\* Nothing constructed yet; the engine is the infallible one.
Init ==
    /\ InitCommon
    /\ rng \in ByteSample
    /\ k = [t \in Threads |-> NoKey]
    /\ n = [t \in Threads |-> <<>>]
    /\ faulty = FALSE

\* The Holder runs every operation.
Next ==
    \/ GenKeyBegin(Holder)
    \/ GenNonceBegin(Holder)
    \/ RandomFill(Holder)
    \/ GenKeyEnd(Holder)
    \/ GenNonceEnd(Holder)
    \/ KeyFromSlice(Holder)
    \/ NonceFromSlice(Holder)
    \/ Exit(Holder)
    \/ Release(Holder)
    \/ RandomMsg(Holder)
    \/ StreamCall(Holder)
    \/ StreamReturn(Holder)
    \/ StreamXorCall(Holder)
    \/ StreamXorInplaceCall(Holder)
    \/ XorReturn(Holder)

Spec == Init /\ [][Next]_vars

\* Every thread generates keys and nonces, interleaved byte by byte.
NextConc ==
    \E t \in Threads :
        \/ GenKeyBegin(t)
        \/ GenNonceBegin(t)
        \/ RandomFill(t)
        \/ GenKeyEnd(t)
        \/ GenNonceEnd(t)

SpecConc == Init /\ [][NextConc]_vars

\* The Holder has a key and a nonce, and the engine may signal failure.
InitFail ==
    /\ InitCommon
    /\ rng = 0
    /\ \E key \in SeqsOfLen(KEYBYTES) :
          k = [t \in Threads |->
                 IF t = Holder THEN [st |-> "live", mem |-> key] ELSE NoKey]
    /\ \E nonce \in SeqsOfLen(NONCEBYTES) :
          n = [t \in Threads |-> IF t = Holder THEN nonce ELSE <<>>]
    /\ faulty = TRUE

NextFail ==
    \/ RandomMsg(Holder)
    \/ StreamCall(Holder)
    \/ StreamReturn(Holder)
    \/ StreamXorCall(Holder)
    \/ StreamXorInplaceCall(Holder)
    \/ XorReturn(Holder)

SpecFail == InitFail /\ [][NextFail]_vars

\* ----------------------------------------------------------------- claims

H == Holder
CallPcs == {"stream", "stream_xor", "stream_xor_inplace"}
Has(names) == names \subseteq have

\* The kept keystream s was produced for the Holder's current key and nonce
\* and for the length of the message m.
KeystreamOfM ==
    /\ Has({"m", "s"})
    /\ KeyLive(H)
    /\ sArgs = [len |-> Len(buf["m"]), n |-> n[H], k |-> k[H].mem]

\* C1: whenever the Holder has m, c = stream_xor(m, n, k) and
\* s = stream(len(m), n, k) for the same key and nonce, c is m XOR s byte for
\* byte (the assertion of test_stream_xor).
C1_KeystreamEquivalence ==
    (Idle(H) /\ Has({"c"}) /\ KeystreamOfM)
        => buf["c"] = XorSeq(buf["m"], buf["s"])

C1_Witness ==
    /\ Idle(H) /\ Has({"c"}) /\ KeystreamOfM
    /\ Len(buf["m"]) > 0
    /\ buf["c"] # buf["m"]
    /\ \E i \in 1..Len(buf["m"]) : buf["m"][i] # 0

\* C2: whenever the Holder has m, c = stream_xor(m, n, k) and
\* m2 = stream_xor(c, n, k), m2 equals m (the assertion of
\* test_encrypt_decrypt).
C2_RoundTrip ==
    (Idle(H) /\ Has({"m", "c", "m2"})) => buf["m2"] = buf["m"]

C2_Witness ==
    /\ Idle(H) /\ Has({"m", "c", "m2"})
    /\ Len(buf["m"]) > 0
    /\ buf["c"] # buf["m"]

\* C3: after stream_xor_inplace on a copy b of m, b holds the bytes that
\* stream_xor(m, n, k) returns, and m XOR stream(len(m), n, k) (the assertion
\* of test_stream_xor_inplace).
C3_InplaceEquivalence ==
    /\ (Idle(H) /\ Has({"m", "b", "c"})) => buf["b"] = buf["c"]
    /\ (Idle(H) /\ Has({"b"}) /\ KeystreamOfM)
          => buf["b"] = XorSeq(buf["m"], buf["s"])

C3_Witness ==
    /\ Idle(H) /\ Has({"b", "c"}) /\ KeystreamOfM
    /\ Len(buf["m"]) > 0
    /\ buf["b"] # buf["m"]

\* C4: the buffer stream_xor returns is as long as its input, and the buffer
\* stream_xor_inplace works on keeps its length, before, during and after the
\* call.
C4_LengthPreserved ==
    /\ (Idle(H) /\ Has({"m", "c"})) => Len(buf["c"]) = Len(buf["m"])
    /\ (Idle(H) /\ Has({"c", "m2"})) => Len(buf["m2"]) = Len(buf["c"])
    /\ Has({"m", "b"}) => Len(buf["b"]) = Len(buf["m"])

C4_Witness ==
    /\ Idle(H) /\ Has({"m", "c", "b"})
    /\ Len(buf["m"]) = 0
    /\ buf["c"] = <<>> /\ buf["b"] = <<>>

\* C5: from_slice of a byte sequence succeeds exactly when its length is
\* KEYBYTES (Key) or NONCEBYTES (Nonce); on success the value holds the bytes
\* of the input; on failure the result is InvalidLength and no Key exists.
C5_FromSlice ==
    /\ conv.ty = "Key" =>
          /\ conv.res = "ok" <=> Len(buf["m"]) = KEYBYTES
          /\ conv.res = "ok" => (KeyLive(H) /\ k[H].mem = buf["m"])
          /\ conv.res # "ok" => (conv.res = "InvalidLength" /\ ~KeyLive(H))
    /\ conv.ty = "Nonce" =>
          /\ conv.res = "ok" <=> Len(buf["m"]) = NONCEBYTES
          /\ conv.res = "ok" => n[H] = buf["m"]
          /\ conv.res # "ok" => conv.res = "InvalidLength"

C5_Witness ==
    /\ conv = [ty |-> "Key", res |-> "InvalidLength"]
    /\ Len(buf["m"]) > 0
    /\ ~KeyLive(H)

\* C6: a Key that has been destroyed holds KEYBYTES zero bytes from the end
\* of its destructor on, whatever the exit path, and so when its memory is
\* released; and while a call that borrows the Key is in progress the Key
\* is live and holds the bytes the engine was handed.
C6_ZeroedOnDrop ==
    \A t \in Threads :
        /\ k[t].st \in {"dropped", "released"} => k[t].mem = Zeros(KEYBYTES)
        /\ pc[t] \in CallPcs => (KeyLive(t) /\ k[t].mem = ecall.k)

C6_Witness ==
    /\ k[H].st = "released"
    /\ exitBy = "unwind"

C8_Determinism ==
    [][(pc[H] = "stream" /\ again') => buf'["s"] = buf["s"]]_vars

C8_Witness ==
    /\ again
    /\ Idle(H)
    /\ sArgs.len > 0
    /\ Has({"s", "c"})

\* C9: in every interleaving of gen_key and gen_nonce calls, the array of a
\* call in progress has KEYBYTES (NONCEBYTES) bytes, of which exactly the
\* first idx were written, each by the calling thread from the random source;
\* the call returns only once all are written, and a returned Key (Nonce)
\* has KEYBYTES (NONCEBYTES) bytes.
C9_ConcurrentGeneration ==
    \A t \in Threads :
        /\ pc[t] \in {"gen_key", "gen_nonce"} =>
              LET want == IF pc[t] = "gen_key" THEN KEYBYTES ELSE NONCEBYTES
                  b == LocalBuf(t)
              IN /\ Len(stack[b]) = want
                 /\ Len(writer[b]) = want
                 /\ \A i \in 1..want :
                       writer[b][i] = IF i <= idx[t] THEN t ELSE 0
        /\ KeyLive(t) => Len(k[t].mem) = KEYBYTES
        /\ n[t] # <<>> => Len(n[t]) = NONCEBYTES

C9_Witness ==
    /\ pc[1] = "gen_key" /\ idx[1] = KEYBYTES
    /\ pc[2] = "gen_key" /\ idx[2] = KEYBYTES
    /\ stack[LocalBuf(1)] # stack[LocalBuf(2)]

\* C10: the length handed to the engine is the length of the output buffer
\* handed to it and, for the xor entry point, of the input buffer; and the
\* buffer stream returns has the length asked for.
C10_EngineLengths ==
    /\ pc[H] \in CallPcs =>
          /\ ecall.len = Len(buf[ecall.out])
          /\ ecall.fn = "xor" => ecall.len = Len(buf[ecall.in])
    /\ Has({"s"}) => Len(buf["s"]) = sArgs.len

C10_Witness ==
    /\ Idle(H)
    /\ Has({"s"})
    /\ sArgs.len = 0
    /\ buf["s"] = <<>>

====
